---- MODULE Spec2Model ----
(***************************************************************************)
(* A model of src/src/utils/analytics.ts: the GA4 analytics helper of the   *)
(* landing page.  The browser is single threaded, so every handler (an      *)
(* exported function called by the page, a timer callback, an event         *)
(* listener, an IntersectionObserver callback) is one atomic action.        *)
(*                                                                         *)
(* Time is counted in units of 100 ms, the period of the gtag poll.  Timers *)
(* hold the time that remains until they are due; Tick lets one unit pass   *)
(* and is enabled only when no timer is due, so due timers run promptly.    *)
(***************************************************************************)
EXTENDS Integers, Sequences, FiniteSets

VARIABLES
    gtag,            \* window.gtag: "absent", "ok" (a function), "throws" (a function that throws)
    calls,           \* one record per trackEvent call: its closure and what happened to it
    gtagLog,         \* the invocations of window.gtag, in order
    timers,          \* the active timers of the window, in order of registration
    consoleErrors,   \* number of console.error calls
    uncaught,        \* number of exceptions that left a handler uncaught
    maxScrollDepth,  \* module-level maxScrollDepth (a JS number)
    scrollTimeout,   \* module-level scrollTimeout: 0 for null, else a timer handle
    listeners,       \* number of trackScroll listeners registered on window
    sinceScroll,     \* time since the last scroll event (capped), history
    sinceRaise,      \* time since the last scroll event that raised maxScrollDepth (capped), history
    dom,             \* ids of the elements present in the document
    observers,       \* the IntersectionObservers created by trackSectionView
    sectionCalls,    \* one record per trackSectionView call, history
    dev              \* the environment and result of a getDeviceType call

trackVars   == <<gtag, calls, gtagLog, timers, consoleErrors, uncaught>>
scrollVars  == <<maxScrollDepth, scrollTimeout, listeners, sinceScroll, sinceRaise>>
sectionVars == <<dom, observers, sectionCalls>>
vars == <<gtag, calls, gtagLog, timers, consoleErrors, uncaught,
          maxScrollDepth, scrollTimeout, listeners, sinceScroll, sinceRaise,
          dom, observers, sectionCalls, dev>>

(***************************************************************************)
(* Bounds of the model.                                                    *)
(***************************************************************************)
MaxWidth == 1030        \* viewport widths 0..MaxWidth
MaxCalls == 1           \* trackEvent calls the page makes in one page load
MaxOrderCalls == 2      \* trackCTAClick calls where the order of delivery is studied
MaxPollScrollTop == 1   \* scroll offsets 0..MaxPollScrollTop while gtag may still be loading
MaxListeners == 2       \* initScrollTracking calls
MaxScrollTop == 2       \* scroll offsets 0..MaxScrollTop
MaxSectionCalls == 2    \* trackSectionView calls
MaxEntries == 2         \* IntersectionObserver entries waiting for one callback
MaxSections == 2        \* section ids 1..MaxSections

(***************************************************************************)
(* Constants of the program.                                               *)
(***************************************************************************)
MobileMaxWidth == 768
TabletMaxWidth == 1024
maxAttempts == 50
PollDelay == 1          \* setInterval(..., 100): one unit of 100 ms
DebounceDelay == 5      \* setTimeout(..., 500): five units of 100 ms

(***************************************************************************)
(* getDeviceType.  A user agent is modelled by the set of words it         *)
(* contains; the two regular expressions are alternations of words, so a   *)
(* test succeeds iff one of the words occurs in the lower-cased agent.      *)
(***************************************************************************)
UAWords == {"Android", "iPad", "Opera Mini", "Silk", "Macintosh"}

ToLowerCase(w) ==
    CASE w = "Android"    -> "android"
      [] w = "iPad"       -> "ipad"
      [] w = "Opera Mini" -> "opera mini"
      [] w = "Silk"       -> "silk"
      [] w = "Macintosh"  -> "macintosh"
      [] OTHER            -> w

MobilePattern == {"mobile", "android", "iphone", "ipod", "blackberry", "iemobile", "opera mini"}
TabletPattern == {"tablet", "ipad", "playbook", "silk"}

RegexTest(pattern, userAgent) == \E w \in userAgent : w \in pattern

getDeviceTypeStrictTablet(hasWindow, width, ua) ==
    IF ~hasWindow THEN "desktop"
    ELSE LET userAgent == {ToLowerCase(w) : w \in ua}
         IN  IF RegexTest(MobilePattern, userAgent) THEN "mobile"
             ELSE IF RegexTest(TabletPattern, userAgent)
                     \/ (width > MobileMaxWidth /\ width < TabletMaxWidth) THEN "tablet"
             ELSE IF width <= MobileMaxWidth THEN "mobile"
             ELSE IF width < TabletMaxWidth THEN "tablet"
             ELSE "desktop"

getDeviceTypeTabletFirst(hasWindow, width, ua) ==
    IF ~hasWindow THEN "desktop"
    ELSE LET userAgent == {ToLowerCase(w) : w \in ua}
         IN  IF RegexTest(TabletPattern, userAgent)
                \/ (width >= MobileMaxWidth /\ width < TabletMaxWidth) THEN "tablet"
             ELSE IF RegexTest(MobilePattern, userAgent) THEN "mobile"
             ELSE IF width < MobileMaxWidth THEN "mobile"
             ELSE IF width < TabletMaxWidth THEN "tablet"
             ELSE "desktop"

getDeviceType(hasWindow, width, ua) ==
    IF ~hasWindow THEN "desktop"
    ELSE LET userAgent == {ToLowerCase(w) : w \in ua}
         IN  IF RegexTest(MobilePattern, userAgent) THEN "mobile"
             ELSE IF RegexTest(TabletPattern, userAgent)
                     \/ (width >= MobileMaxWidth /\ width < TabletMaxWidth) THEN "tablet"
             ELSE IF width < MobileMaxWidth THEN "mobile"
             ELSE IF width < TabletMaxWidth THEN "tablet"
             ELSE "desktop"

DevIdle == [pc |-> "idle", hasWindow |-> FALSE, width |-> 0, ua |-> {}, result |-> "none"]

DevInputs ==
    [pc : {"call"}, hasWindow : BOOLEAN, width : 0..MaxWidth,
     ua : SUBSET UAWords, result : {"none"}]

GetDeviceTypeCall ==
    /\ dev.pc = "call"
    /\ dev' = [dev EXCEPT !.pc = "done",
                          !.result = getDeviceType(dev.hasWindow, dev.width, dev.ua)]
    /\ UNCHANGED <<trackVars, scrollVars, sectionVars>>

(***************************************************************************)
(* JavaScript numbers, as far as trackScroll needs them: an integer, NaN   *)
(* (0/0) or Infinity (x/0 for x > 0).                                      *)
(***************************************************************************)
Num(n) == [k |-> "num", v |-> n]
NaN == [k |-> "nan", v |-> 0]
Infinity == [k |-> "inf", v |-> 0]

\* a > b on JavaScript numbers: false whenever an operand is NaN.
JsGt(a, b) ==
    CASE a.k = "nan" \/ b.k = "nan" -> FALSE
      [] a.k = "inf"                -> b.k = "num"
      [] b.k = "inf"                -> FALSE
      [] OTHER                      -> a.v > b.v

(***************************************************************************)
(* trackEvent and waitForGtag.  The state they touch is passed around as a *)
(* record w, so that a handler which calls trackEvent remains one action.  *)
(***************************************************************************)
World == [calls |-> calls, gtagLog |-> gtagLog, timers |-> timers,
          consoleErrors |-> consoleErrors, uncaught |-> uncaught]

SetWorld(w) ==
    /\ calls' = w.calls
    /\ gtagLog' = w.gtagLog
    /\ timers' = w.timers
    /\ consoleErrors' = w.consoleErrors
    /\ uncaught' = w.uncaught

NoProps == [key \in {} |-> Num(0)]

\* new Date(): the moment of the call, identified by the call's position in
\* the page's sequence of trackEvent calls.
NewDate(w) == Len(w.calls) + 1

ToISOString(date) == [k |-> "iso", v |-> date]

EnrichKeepCaller(properties, date) ==
    [key \in DOMAIN properties \cup {"timestamp"} |->
        IF key \in DOMAIN properties THEN properties[key] ELSE ToISOString(date)]

\* { ...properties, timestamp: new Date().toISOString() }
Enrich(properties, date) ==
    [key \in DOMAIN properties \cup {"timestamp"} |->
        IF key = "timestamp" THEN ToISOString(date) ELSE properties[key]]

RemoveAt(s, i) == SubSeq(s, 1, i - 1) \o SubSeq(s, i + 1, Len(s))

SendEventNoCatch(w, c) ==
    IF gtag = "absent" THEN w
    ELSE LET sent == [w EXCEPT
                 !.gtagLog = Append(@, [call |-> c, name |-> w.calls[c].name,
                                        props |-> w.calls[c].props,
                                        threw |-> (gtag = "throws")]),
                 !.calls[c].sends = @ + 1]
         IN  IF gtag = "throws"
             THEN [sent EXCEPT !.uncaught = @ + 1]
             ELSE sent

\* The closure sendEvent of the trackEvent call c.
SendEvent(w, c) ==
    IF gtag = "absent" THEN w
    ELSE LET sent == [w EXCEPT
                 !.gtagLog = Append(@, [call |-> c, name |-> w.calls[c].name,
                                        props |-> w.calls[c].props,
                                        threw |-> (gtag = "throws")]),
                 !.calls[c].sends = @ + 1]
         IN  IF gtag = "throws"
             THEN [sent EXCEPT !.consoleErrors = @ + 1]   \* caught and logged
             ELSE sent

IntervalTimer(c) ==
    [kind |-> "interval", id |-> c, rem |-> PollDelay, delay |-> PollDelay,
     attempts |-> 0, depth |-> NaN]

\* waitForGtag(sendEvent) of call c: starts the polling interval.
WaitForGtag(w, c) ==
    [w EXCEPT !.timers = Append(@, IntervalTimer(c)),
              !.calls[c].path = "poll"]

\* The closure of a trackEvent call.  given, date, avail (was gtag there at
\* the call), path, ticks, cleared, gaveUp and sends record what happened.
NewCall(eventName, properties, date) ==
    [name |-> eventName, given |-> properties,
     props |-> Enrich(properties, date),
     date |-> date, avail |-> (gtag # "absent"), path |-> "now", ticks |-> 0,
     cleared |-> FALSE, gaveUp |-> FALSE, sends |-> 0]

TrackEventAlwaysPoll(w, eventName, properties) ==
    LET c == Len(w.calls) + 1
        w1 == [w EXCEPT !.calls = Append(@, NewCall(eventName, properties, NewDate(w)))]
    IN  WaitForGtag(w1, c)

\* trackEvent(eventName, properties)
TrackEvent(w, eventName, properties) ==
    LET c == Len(w.calls) + 1
        w1 == [w EXCEPT !.calls = Append(@, NewCall(eventName, properties, NewDate(w)))]
    IN  IF gtag # "absent" THEN SendEvent(w1, c) ELSE WaitForGtag(w1, c)

PollCallbackNoClear(w, i) ==
    LET t == w.timers[i]
        c == t.id
        attempts == t.attempts + 1
        w1 == [w EXCEPT !.calls[c].ticks = @ + 1]
        again == [w1 EXCEPT !.timers =
                     Append(RemoveAt(@, i), [t EXCEPT !.attempts = attempts, !.rem = t.delay])]
    IN  IF gtag # "absent"
        THEN SendEvent([w1 EXCEPT !.timers = RemoveAt(@, i), !.calls[c].cleared = TRUE], c)
        ELSE IF attempts >= maxAttempts THEN [again EXCEPT !.calls[c].gaveUp = TRUE]
        ELSE again

PollCallbackForgetsSend(w, i) ==
    LET t == w.timers[i]
        c == t.id
        attempts == t.attempts + 1
        w1 == [w EXCEPT !.calls[c].ticks = @ + 1]
        cleared == [w1 EXCEPT !.timers = RemoveAt(@, i), !.calls[c].cleared = TRUE]
    IN  IF gtag # "absent" THEN cleared
        ELSE IF attempts >= maxAttempts THEN [cleared EXCEPT !.calls[c].gaveUp = TRUE]
        ELSE [w1 EXCEPT !.timers =
                 Append(RemoveAt(@, i), [t EXCEPT !.attempts = attempts, !.rem = t.delay])]

PollCallbackOffByOne(w, i) ==
    LET t == w.timers[i]
        c == t.id
        attempts == t.attempts + 1
        w1 == [w EXCEPT !.calls[c].ticks = @ + 1]
        cleared == [w1 EXCEPT !.timers = RemoveAt(@, i), !.calls[c].cleared = TRUE]
    IN  IF gtag # "absent" THEN SendEvent(cleared, c)
        ELSE IF attempts > maxAttempts THEN [cleared EXCEPT !.calls[c].gaveUp = TRUE]
        ELSE [w1 EXCEPT !.timers =
                 Append(RemoveAt(@, i), [t EXCEPT !.attempts = attempts, !.rem = t.delay])]

\* One run of the interval callback of waitForGtag, for the timer at index i.
\* calls[c].ticks, .cleared and .gaveUp record what happened; the code keeps
\* only attempts.
PollCallback(w, i) ==
    LET t == w.timers[i]
        c == t.id
        attempts == t.attempts + 1
        w1 == [w EXCEPT !.calls[c].ticks = @ + 1]
        cleared == [w1 EXCEPT !.timers = RemoveAt(@, i), !.calls[c].cleared = TRUE]
    IN  IF gtag # "absent" THEN SendEvent(cleared, c)
        ELSE IF attempts >= maxAttempts THEN [cleared EXCEPT !.calls[c].gaveUp = TRUE]
        ELSE [w1 EXCEPT !.timers =
                 Append(RemoveAt(@, i), [t EXCEPT !.attempts = attempts, !.rem = t.delay])]

\* The timer at index i is due, and every timer registered before it with a
\* delay no longer than its own has run.
Fireable(i) ==
    /\ i \in 1..Len(timers)
    /\ timers[i].rem = 0
    /\ \A j \in 1..(i - 1) : timers[j].delay > timers[i].delay

Cap(n, m) == IF n < m THEN n ELSE m

\* 100 ms pass.
Tick ==
    /\ \A i \in 1..Len(timers) : timers[i].rem > 0
    /\ timers' = [i \in 1..Len(timers) |-> [timers[i] EXCEPT !.rem = @ - 1]]
    /\ sinceScroll' = Cap(sinceScroll + 1, DebounceDelay)
    /\ sinceRaise' = Cap(sinceRaise + 1, DebounceDelay)
    /\ UNCHANGED <<gtag, calls, gtagLog, consoleErrors, uncaught,
                   maxScrollDepth, scrollTimeout, listeners, sectionVars, dev>>

\* The gtag.js script finishes loading and defines window.gtag.
GtagLoads ==
    /\ gtag = "absent"
    /\ gtag' \in {"ok", "throws"}
    /\ UNCHANGED <<calls, gtagLog, timers, consoleErrors, uncaught,
                   scrollVars, sectionVars, dev>>

PollTick(i) ==
    /\ Fireable(i)
    /\ timers[i].kind = "interval"
    /\ SetWorld(PollCallback(World, i))
    /\ UNCHANGED <<gtag, scrollVars, sectionVars, dev>>

\* The interval callback finds gtag and sends.
PollFindsGtag == \E i \in 1..Len(timers) : gtag # "absent" /\ PollTick(i)

\* The interval callback finds no gtag on its last attempt and gives up.
PollGivesUp ==
    \E i \in 1..Len(timers) :
        gtag = "absent" /\ timers[i].attempts + 1 >= maxAttempts /\ PollTick(i)

\* The interval callback finds no gtag and keeps polling.
PollRetries ==
    \E i \in 1..Len(timers) :
        gtag = "absent" /\ timers[i].attempts + 1 < maxAttempts /\ PollTick(i)

CallerProps ==
    {NoProps,
     [key \in {"timestamp"} |-> [k |-> "raw", v |-> 7]],
     [key \in {"label", "timestamp"} |-> [k |-> "raw", v |-> 7]]}

\* The page calls trackEvent directly.
TrackEventCall ==
    /\ Len(calls) < MaxCalls
    /\ \E properties \in CallerProps :
          SetWorld(TrackEvent(World, "custom_event", properties))
    /\ UNCHANGED <<gtag, scrollVars, sectionVars, dev>>

\* trackCTAClick(position), while the page has made fewer than limit calls.
TrackCTAClickUpTo(limit) ==
    /\ Len(calls) < limit
    /\ \E position \in {1} :
          SetWorld(TrackEvent(World, "LandingPg_CTA_Clicked",
                              [key \in {"cta_position"} |-> [k |-> "raw", v |-> position]]))
    /\ UNCHANGED <<gtag, scrollVars, sectionVars, dev>>

TrackCTAClick == TrackCTAClickUpTo(MaxCalls)

\* A click on one of several call-to-action buttons of the page.
TrackCTAClickAgain == TrackCTAClickUpTo(MaxOrderCalls)

(***************************************************************************)
(* initScrollTracking and its listener trackScroll.                       *)
(***************************************************************************)
WindowHeights == {2, 4}
DocumentHeights == {2, 4, 6}

\* window.scrollY || document.documentElement.scrollTop
ScrollTopOf(scrollY, elementScrollTop) ==
    IF scrollY # 0 THEN scrollY ELSE elementScrollTop

\* Math.round((scrollTop / (documentHeight - windowHeight)) * 100); Math.round
\* rounds halves up, so it is floor(x + 1/2).
ScrollPercent(scrollTop, documentHeight, windowHeight) ==
    LET d == documentHeight - windowHeight
        m == IF d < 0 THEN -d ELSE d
        n == IF d < 0 THEN -(200 * scrollTop) ELSE 200 * scrollTop
    IN  IF d = 0 THEN (IF scrollTop = 0 THEN NaN ELSE Infinity)
        ELSE Num((n + m) \div (2 * m))

\* `${scrollPercent}%`
Template(x) == [k |-> IF x.k = "inf" THEN "Infinity%" ELSE "n%", v |-> x.v]

TimeoutTimerShort(handle, scrollPercent) ==
    [kind |-> "timeout", id |-> handle, rem |-> DebounceDelay - 1, delay |-> DebounceDelay - 1,
     attempts |-> 0, depth |-> scrollPercent]

\* window.setTimeout(() => trackEvent('LandingPg_Scroll', ...), 500)
TimeoutTimer(handle, scrollPercent) ==
    [kind |-> "timeout", id |-> handle, rem |-> DebounceDelay, delay |-> DebounceDelay,
     attempts |-> 0, depth |-> scrollPercent]

ClearTimeoutNoop(ts, handle) == ts

\* clearTimeout(handle): the timeout with that handle, if it is still active,
\* is removed; a handle of a timer that has run names nothing.
ClearTimeout(ts, handle) ==
    SelectSeq(ts, LAMBDA t : ~(t.kind = "timeout" /\ t.id = handle))

ScrollState == [max |-> maxScrollDepth, timeout |-> scrollTimeout, timers |-> timers]

TrackScrollNotStrict(s, scrollPercent) ==
    IF JsGt(scrollPercent, s.max) \/ scrollPercent = s.max
    THEN LET cleared == IF s.timeout # 0 THEN ClearTimeout(s.timers, s.timeout)
                        ELSE s.timers
         IN  [max |-> scrollPercent,
              timeout |-> s.timeout + 1,
              timers |-> Append(cleared, TimeoutTimer(s.timeout + 1, scrollPercent))]
    ELSE s

TrackScrollKeepsMax(s, scrollPercent) ==
    IF JsGt(scrollPercent, s.max)
    THEN LET cleared == IF s.timeout # 0 THEN ClearTimeout(s.timers, s.timeout)
                        ELSE s.timers
         IN  [max |-> s.max,
              timeout |-> s.timeout + 1,
              timers |-> Append(cleared, TimeoutTimer(s.timeout + 1, scrollPercent))]
    ELSE s

\* One run of the listener trackScroll.  window.setTimeout returns a handle
\* that no earlier timer had: the handles of the debounce timers are 1, 2, ...
TrackScroll(s, scrollPercent) ==
    IF JsGt(scrollPercent, s.max)
    THEN LET cleared == IF s.timeout # 0 THEN ClearTimeout(s.timers, s.timeout)
                        ELSE s.timers
         IN  [max |-> scrollPercent,
              timeout |-> s.timeout + 1,
              timers |-> Append(cleared, TimeoutTimer(s.timeout + 1, scrollPercent))]
    ELSE s

\* The scroll event is dispatched to each of the n registered listeners.
RECURSIVE Dispatch(_, _, _)
Dispatch(s, n, scrollPercent) ==
    IF n = 0 THEN s ELSE Dispatch(TrackScroll(s, scrollPercent), n - 1, scrollPercent)

\* initScrollTracking(): one more listener on window.
InitScrollTracking ==
    /\ listeners < MaxListeners
    /\ listeners' = listeners + 1
    /\ UNCHANGED <<trackVars, maxScrollDepth, scrollTimeout, sinceScroll, sinceRaise,
                   sectionVars, dev>>

\* The window fires a scroll event, with the page scrolled and sized as given.
ScrollEventAt(scrollY, elementScrollTop, documentHeight, windowHeight) ==
    LET scrollPercent == ScrollPercent(ScrollTopOf(scrollY, elementScrollTop),
                                       documentHeight, windowHeight)
        s == Dispatch(ScrollState, listeners, scrollPercent)
    IN  /\ sinceScroll' = 0
        /\ maxScrollDepth' = s.max
        /\ scrollTimeout' = s.timeout
        /\ timers' = s.timers
        /\ sinceRaise' = IF s.max # maxScrollDepth THEN 0 ELSE sinceRaise
        /\ UNCHANGED <<gtag, calls, gtagLog, consoleErrors, uncaught,
                       listeners, sectionVars, dev>>

\* The window fires a scroll event.
ScrollEvent ==
    \E scrollY \in 0..MaxScrollTop, documentHeight \in DocumentHeights,
       windowHeight \in WindowHeights :
      \E elementScrollTop \in {0, scrollY} :
        ScrollEventAt(scrollY, elementScrollTop, documentHeight, windowHeight)

\* The debounce timer runs its callback: trackEvent('LandingPg_Scroll', ...).
DebounceFires ==
    \E i \in 1..Len(timers) :
        /\ Fireable(i)
        /\ timers[i].kind = "timeout"
        /\ SetWorld(TrackEvent([World EXCEPT !.timers = RemoveAt(@, i)],
                               "LandingPg_Scroll",
                               [key \in {"scroll_depth", "scroll_depth_percent"} |->
                                   IF key = "scroll_depth" THEN timers[i].depth
                                   ELSE Template(timers[i].depth)]))
        /\ UNCHANGED <<gtag, scrollVars, sectionVars, dev>>

(***************************************************************************)
(* trackSectionView.  An observer holds the entries the browser has queued *)
(* for its next callback; the callback receives all of them at once.       *)
(***************************************************************************)
Sections == 1..MaxSections

SectionEventName == "LandingPg_Section_Viewed"

NewObserver(sectionId, eventName, call) ==
    [section |-> sectionId, name |-> eventName, call |-> call,
     connected |-> TRUE, queue |-> <<>>, fired |-> 0]

TrackSectionViewNoReturn(sectionId, eventName) ==
    /\ sectionCalls' = Append(sectionCalls, [section |-> sectionId, found |-> sectionId \in dom])
    /\ observers' = Append(observers, NewObserver(sectionId, eventName, Len(sectionCalls) + 1))

\* trackSectionView(sectionId, eventName)
TrackSectionView(sectionId, eventName) ==
    /\ sectionCalls' = Append(sectionCalls, [section |-> sectionId, found |-> sectionId \in dom])
    /\ observers' =
          IF sectionId \notin dom THEN observers      \* if (!section) return;
          ELSE Append(observers, NewObserver(sectionId, eventName, Len(sectionCalls) + 1))

\* entries.forEach(...) of the observer callback, on the entries from index n on.
\* r holds the world of trackEvent and the observer.
RECURSIVE ForEachEntry(_, _, _)
ForEachEntry(r, entries, n) ==
    IF n > Len(entries) THEN r
    ELSE IF entries[n]
         THEN ForEachEntry(
                  [w |-> TrackEvent(r.w, r.o.name,
                                    [key \in {"section_id"} |-> [k |-> "raw", v |-> r.o.section]]),
                   o |-> [r.o EXCEPT !.fired = @ + 1,
                                     !.connected = FALSE]],    \* observer.disconnect()
                  entries, n + 1)
         ELSE ForEachEntry(r, entries, n + 1)

\* The page calls trackSectionView.
TrackSectionViewCall ==
    /\ Len(sectionCalls) < MaxSectionCalls
    /\ \E sectionId \in Sections : TrackSectionView(sectionId, SectionEventName)
    /\ UNCHANGED <<trackVars, scrollVars, dom, dev>>

\* An element with a section's id enters the document.
ElementAdded ==
    /\ \E sectionId \in Sections \ dom : dom' = dom \cup {sectionId}
    /\ UNCHANGED <<trackVars, scrollVars, observers, sectionCalls, dev>>

\* The browser finds that the intersection of an observed section changed and
\* queues an entry for the observer.
EntryQueued ==
    /\ \E i \in 1..Len(observers), isIntersecting \in BOOLEAN :
          /\ observers[i].connected
          /\ Len(observers[i].queue) < MaxEntries
          /\ observers' = [observers EXCEPT ![i].queue = Append(@, isIntersecting)]
    /\ UNCHANGED <<trackVars, scrollVars, dom, sectionCalls, dev>>

\* The browser invokes the callback of an observer with its queued entries.
ObserverCallback ==
    /\ \E i \in 1..Len(observers) :
          /\ observers[i].queue # <<>>
          /\ LET r == ForEachEntry([w |-> World, o |-> [observers[i] EXCEPT !.queue = <<>>]],
                                   observers[i].queue, 1)
             IN  /\ SetWorld(r.w)
                 /\ observers' = [observers EXCEPT ![i] = r.o]
    /\ UNCHANGED <<gtag, scrollVars, dom, sectionCalls, dev>>

InitTrack ==
    /\ gtag = "absent"
    /\ calls = <<>>
    /\ gtagLog = <<>>
    /\ timers = <<>>
    /\ consoleErrors = 0
    /\ uncaught = 0

InitScroll ==
    /\ maxScrollDepth = Num(0)
    /\ scrollTimeout = 0
    /\ listeners = 0
    /\ sinceScroll = DebounceDelay
    /\ sinceRaise = DebounceDelay

InitSection ==
    /\ dom = {}
    /\ observers = <<>>
    /\ sectionCalls = <<>>

(***************************************************************************)
(* Specifications.                                                         *)
(***************************************************************************)
\* getDeviceType, applied once to every environment within the bounds.
InitDevice == InitTrack /\ InitScroll /\ InitSection /\ dev \in DevInputs
NextDevice == GetDeviceTypeCall
SpecDevice == InitDevice /\ [][NextDevice]_vars

\* trackEvent called by the page (directly or through trackCTAClick), the
\* script loading at any moment, and the polls.
InitPage == InitTrack /\ InitScroll /\ InitSection /\ dev = DevIdle
NextTrack ==
    \/ TrackEventCall
    \/ TrackCTAClick
    \/ GtagLoads
    \/ PollFindsGtag
    \/ PollGivesUp
    \/ PollRetries
    \/ Tick
SpecTrack == InitPage /\ [][NextTrack]_vars

\* Scroll-depth tracking on a page whose gtag.js has loaded: scroll events
\* and the debounce timer.
InitLoaded ==
    /\ gtag \in {"ok", "throws"}
    /\ calls = <<>>
    /\ gtagLog = <<>>
    /\ timers = <<>>
    /\ consoleErrors = 0
    /\ uncaught = 0
    /\ InitScroll /\ InitSection /\ dev = DevIdle
NextScroll ==
    \/ InitScrollTracking
    \/ ScrollEvent
    \/ DebounceFires
    \/ Tick
SpecScroll == InitLoaded /\ [][NextScroll]_vars

\* Section-view tracking on a page whose gtag.js has loaded.
NextSection ==
    \/ TrackSectionViewCall
    \/ ElementAdded
    \/ EntryQueued
    \/ ObserverCallback
SpecSection == InitLoaded /\ [][NextSection]_vars

\* Several call-to-action clicks, the script loading at any moment, and the
\* polls: the order in which events reach gtag.
NextOrder ==
    \/ TrackCTAClickAgain
    \/ GtagLoads
    \/ PollFindsGtag
    \/ PollGivesUp
    \/ PollRetries
    \/ Tick
SpecOrder == InitPage /\ [][NextOrder]_vars

\* Scroll-depth tracking while gtag.js may still be loading: one listener
\* is registered, the page is 6 units high in a window of 4, and the polls
\* of the emissions run.  Timers run when they are due and time passes, so
\* the timer actions are weakly fair; the script may never load.
InitTracking ==
    /\ InitTrack
    /\ maxScrollDepth = Num(0)
    /\ scrollTimeout = 0
    /\ listeners = 1
    /\ sinceScroll = DebounceDelay
    /\ sinceRaise = DebounceDelay
    /\ InitSection /\ dev = DevIdle
ScrollOnPage == \E scrollY \in 0..MaxPollScrollTop : ScrollEventAt(scrollY, scrollY, 6, 4)
NextScrollPoll ==
    \/ ScrollOnPage
    \/ DebounceFires
    \/ GtagLoads
    \/ PollFindsGtag
    \/ PollGivesUp
    \/ PollRetries
    \/ Tick
SpecScrollPoll ==
    /\ InitTracking
    /\ [][NextScrollPoll]_vars
    /\ WF_vars(Tick)
    /\ WF_vars(DebounceFires)
    /\ WF_vars(PollFindsGtag)
    /\ WF_vars(PollGivesUp)
    /\ WF_vars(PollRetries)

(***************************************************************************)
(* The claims.                                                             *)
(***************************************************************************)
Timeouts(ts) == {i \in 1..Len(ts) : ts[i].kind = "timeout"}
PollOf(c) == {i \in 1..Len(timers) : timers[i].kind = "interval" /\ timers[i].id = c}
SectionEvents(sectionId) ==
    {c \in 1..Len(calls) : "section_id" \in DOMAIN calls[c].props
                           /\ calls[c].props["section_id"].v = sectionId}
ScrollEmits == {c \in 1..Len(calls) : calls[c].name = "LandingPg_Scroll"}

RECURSIVE SumFired(_)
SumFired(os) == IF os = <<>> THEN 0 ELSE Head(os).fired + SumFired(Tail(os))

\* C1: within one page load at most one section-view event is passed to
\* trackEvent for each section id, whatever the trackSectionView calls and
\* observer callbacks are.
C1_OneEventPerSection ==
    \A sectionId \in Sections : Cardinality(SectionEvents(sectionId)) <= 1

\* C2: the scroll_depth values of successive LandingPg_Scroll emissions (calls
\* of trackEvent) are strictly increasing.
C2_ScrollDepthsIncrease ==
    \A c1 \in ScrollEmits, c2 \in ScrollEmits :
        c1 < c2 => JsGt(calls[c2].props["scroll_depth"], calls[c1].props["scroll_depth"])

C2_Witness ==
    /\ Cardinality(ScrollEmits) >= 2
    /\ sinceScroll < sinceRaise

\* C3: every invocation of gtag receives properties with a timestamp field
\* that holds the ISO string of the moment of the trackEvent call, also when the
\* caller passed no properties or passed a timestamp of its own.
C3_TimestampAttached ==
    \A n \in 1..Len(gtagLog) :
        LET g == gtagLog[n]
        IN  /\ "timestamp" \in DOMAIN g.props
            /\ g.props["timestamp"] = ToISOString(calls[g.call].date)
            /\ \A key \in DOMAIN calls[g.call].given \ {"timestamp"} :
                  g.props[key] = calls[g.call].given[key]

C3_Witness ==
    \E n \in 1..Len(gtagLog) :
        /\ calls[gtagLog[n].call].path = "poll"
        /\ "timestamp" \in DOMAIN calls[gtagLog[n].call].given

\* C4: the interval of a poll runs at most 50 times; it is cleared on the
\* first run that finds gtag or on the 50th run, and never runs once cleared.
C4_PollTerminates ==
    /\ [](\A c \in 1..Len(calls) :
            /\ calls[c].ticks <= maxAttempts
            /\ calls[c].cleared => PollOf(c) = {}
            /\ (calls[c].path = "poll" /\ ~calls[c].cleared) =>
                  /\ Cardinality(PollOf(c)) = 1
                  /\ calls[c].ticks < maxAttempts
                  /\ \A i \in PollOf(c) : timers[i].attempts = calls[c].ticks)
    /\ [][\A c \in 1..Len(calls) :
            /\ calls[c].cleared => calls'[c].ticks = calls[c].ticks
            /\ calls'[c].ticks # calls[c].ticks =>
                  (calls'[c].cleared <=> (gtag # "absent" \/ calls'[c].ticks = maxAttempts))]_vars

C4_Witness ==
    \E c \in 1..Len(calls) :
        calls[c].cleared /\ calls[c].ticks = maxAttempts /\ gtag = "absent"

\* C5: an event whose poll found no gtag on any of its 50 runs is never sent,
\* also when gtag appears later, and no error is raised or logged for it.
C5_DroppedSilently ==
    \A c \in 1..Len(calls) :
        calls[c].gaveUp =>
            /\ calls[c].sends = 0
            /\ PollOf(c) = {}
            /\ uncaught = 0
            /\ \A n \in 1..Len(gtagLog) : gtagLog[n].call # c

C5_Witness ==
    \E c \in 1..Len(calls) : calls[c].gaveUp /\ gtag # "absent"

\* C6: a trackEvent call invokes gtag at most once; an exception thrown by
\* gtag is caught and logged, leaves no handler, and the send is not retried.
C6_SendOnceCaught ==
    /\ uncaught = 0
    /\ consoleErrors = Cardinality({n \in 1..Len(gtagLog) : gtagLog[n].threw})
    /\ \A c \in 1..Len(calls) :
          /\ calls[c].sends <= 1
          /\ calls[c].sends = Cardinality({n \in 1..Len(gtagLog) : gtagLog[n].call = c})
          /\ calls[c].sends = 1 => PollOf(c) = {}

C6_Witness ==
    \E n \in 1..Len(gtagLog) : gtagLog[n].threw /\ calls[gtagLog[n].call].path = "poll"

\* C7: at most one scroll-debounce timer is pending at any moment.
C7_OneDebounceTimer == Cardinality(Timeouts(timers)) <= 1

C7_Witness ==
    /\ listeners >= 2
    /\ scrollTimeout >= 2
    /\ Cardinality(Timeouts(timers)) = 1

\* C8 as stated: every scroll event that arrives while a debounce timer is
\* pending replaces it by a new 500 ms timer, so a LandingPg_Scroll event is
\* emitted only after 500 ms without any scroll event.
C8_AnyScrollRestartsDebounce ==
    [][/\ (ScrollEvent /\ Timeouts(timers) # {}) =>
             \A i \in Timeouts(timers') :
                 timers'[i].rem = DebounceDelay /\ timers'[i].id # scrollTimeout
       /\ DebounceFires => sinceScroll = DebounceDelay]_vars

\* C8 as amended: a scroll event whose percent exceeds maxScrollDepth cancels
\* the pending debounce timer and starts a new 500 ms timer, so a
\* LandingPg_Scroll event is emitted only after 500 ms without a scroll event
\* that raised maxScrollDepth.
C8_RaisingScrollRestartsDebounce ==
    [][/\ (ScrollEvent /\ maxScrollDepth' # maxScrollDepth) =>
             /\ Cardinality(Timeouts(timers')) = 1
             /\ scrollTimeout' # scrollTimeout
             /\ \A i \in Timeouts(timers') :
                   /\ timers'[i].rem = DebounceDelay
                   /\ timers'[i].id = scrollTimeout'
                   /\ timers'[i].depth = maxScrollDepth'
       /\ DebounceFires => sinceRaise = DebounceDelay]_vars

C8_Witness ==
    /\ Len(calls) >= 1
    /\ Timeouts(timers) = {}
    /\ scrollTimeout > Len(calls)
    /\ sinceScroll < DebounceDelay

\* C9: for a user agent that matches neither pattern, getDeviceType returns
\* "mobile" below 768, "tablet" in [768, 1024) and "desktop" from 1024 on.
C9_DeviceTypeByWidth ==
    (/\ dev.pc = "done"
     /\ dev.hasWindow
     /\ ~RegexTest(MobilePattern, {ToLowerCase(w) : w \in dev.ua})
     /\ ~RegexTest(TabletPattern, {ToLowerCase(w) : w \in dev.ua}))
    => dev.result = (IF dev.width < 768 THEN "mobile"
                     ELSE IF dev.width < 1024 THEN "tablet"
                     ELSE "desktop")

C9_Witness ==
    /\ dev.pc = "done"
    /\ dev.hasWindow
    /\ dev.ua = {"Macintosh"}
    /\ dev.width = 768
    /\ dev.result = "tablet"

\* C10: a trackSectionView call whose section id matches no element creates
\* no observer, and no event is ever emitted for it: every event comes from
\* the observer of a call that found its element.
C10_MissingSectionReturns ==
    /\ \A c \in 1..Len(sectionCalls) :
          ~sectionCalls[c].found => \A i \in 1..Len(observers) : observers[i].call # c
    /\ \A i \in 1..Len(observers) :
          /\ sectionCalls[observers[i].call].found
          /\ sectionCalls[observers[i].call].section = observers[i].section
    /\ Len(calls) = SumFired(observers)
    /\ \A c \in 1..Len(calls) :
          \E i \in 1..Len(observers) :
              observers[i].fired >= 1 /\ observers[i].section = calls[c].props["section_id"].v

C10_Witness ==
    \E c \in 1..Len(sectionCalls) :
        /\ ~sectionCalls[c].found
        /\ sectionCalls[c].section \in dom
        /\ \A i \in 1..Len(observers) : observers[i].section # sectionCalls[c].section
        /\ Len(calls) >= 1

\* C11: a trackEvent call made while gtag is available invokes gtag exactly
\* once before it returns and starts no interval; a call made while gtag is
\* absent invokes gtag exactly once, on the first run of its interval that
\* finds gtag, if that is one of the first 50 runs.
C11_SentAtFirstChance ==
    /\ [](\A c \in 1..Len(calls) :
            /\ calls[c].sends <= 1
            /\ calls[c].avail =>
                  /\ calls[c].sends = 1
                  /\ calls[c].ticks = 0
                  /\ ~calls[c].cleared
                  /\ PollOf(c) = {}
            /\ (~calls[c].avail /\ calls[c].ticks = 0) => calls[c].sends = 0
            /\ (~calls[c].avail /\ calls[c].sends = 1) => calls[c].ticks <= maxAttempts)
    /\ [][\A c \in 1..Len(calls) :
            ~calls[c].avail =>
                (calls'[c].sends = calls[c].sends + 1
                    <=> (calls'[c].ticks = calls[c].ticks + 1 /\ gtag # "absent"))]_vars

C11_Witness ==
    \E c \in 1..Len(calls) :
        ~calls[c].avail /\ calls[c].sends = 1 /\ calls[c].ticks = maxAttempts

\* C12: in getDeviceType the user agent decides before the width: an agent
\* with a mobile word is "mobile" at every width, also when it has a tablet
\* word too; an agent with only a tablet word is "tablet" at every width; the
\* result is always "mobile", "tablet" or "desktop".
C12_UserAgentFirst ==
    dev.pc = "done" =>
        LET userAgent == {ToLowerCase(w) : w \in dev.ua}
            mobile == userAgent \cap MobilePattern # {}
            tablet == userAgent \cap TabletPattern # {}
        IN  /\ dev.result \in {"mobile", "tablet", "desktop"}
            /\ (dev.hasWindow /\ mobile) => dev.result = "mobile"
            /\ (dev.hasWindow /\ tablet /\ ~mobile) => dev.result = "tablet"

C12_Witness ==
    /\ dev.pc = "done"
    /\ dev.hasWindow
    /\ dev.ua = {"Android", "iPad"}
    /\ dev.width = 800
    /\ dev.result = "mobile"

\* The position of call c among the invocations of gtag; 0 if gtag was not
\* invoked for it.
LogPos(c) ==
    IF \E n \in 1..Len(gtagLog) : gtagLog[n].call = c
    THEN CHOOSE n \in 1..Len(gtagLog) : gtagLog[n].call = c
    ELSE 0

\* C13 as stated: events reach gtag in the order of their trackEvent calls,
\* whenever gtag becomes available.
C13_DeliveredInCallOrder ==
    \A m \in 1..Len(gtagLog), n \in 1..Len(gtagLog) :
        m < n => gtagLog[m].call < gtagLog[n].call

\* C13 as amended: a call made while gtag is available reaches gtag before
\* every later call; a call that had to poll can be overtaken.
C13_ImmediateCallsKeepOrder ==
    \A c1 \in 1..Len(calls), c2 \in 1..Len(calls) :
        (c1 < c2 /\ calls[c1].avail) =>
            /\ LogPos(c1) # 0
            /\ LogPos(c2) # 0 => LogPos(c1) < LogPos(c2)

C13_Witness ==
    /\ Len(gtagLog) >= 2
    /\ calls[gtagLog[1].call].avail
    /\ gtagLog[1].call < gtagLog[2].call

\* a <= b on JavaScript numbers: false whenever an operand is NaN.
JsLe(a, b) == a.k # "nan" /\ b.k # "nan" /\ ~JsGt(a, b)

\* C14: maxScrollDepth never decreases, and the scroll_depth a debounce timer
\* emits when it fires is the value of maxScrollDepth at that moment.
C14_EmitsCurrentMax ==
    /\ [](\A i \in Timeouts(timers) : timers[i].depth = maxScrollDepth)
    /\ [][/\ maxScrollDepth' = maxScrollDepth \/ JsGt(maxScrollDepth', maxScrollDepth)
          /\ DebounceFires =>
                /\ Len(calls') = Len(calls) + 1
                /\ calls'[Len(calls')].name = "LandingPg_Scroll"
                /\ calls'[Len(calls')].props["scroll_depth"] = maxScrollDepth]_vars

C14_Witness ==
    /\ Cardinality(ScrollEmits) >= 1
    /\ scrollTimeout > Cardinality(ScrollEmits)
    /\ Timeouts(timers) = {}
    /\ \E c \in ScrollEmits : calls[c].props["scroll_depth"] = maxScrollDepth

\* C16: a scroll event whose percent is less than or equal to maxScrollDepth
\* changes nothing: maxScrollDepth, scrollTimeout and the pending debounce
\* timer stay as they are and no emission is scheduled or made.
C16_LowerScrollChangesNothing ==
    [][\/ UNCHANGED <<maxScrollDepth, scrollTimeout, timers, trackVars>>
       \/ \A scrollY \in 0..MaxScrollTop, documentHeight \in DocumentHeights,
             windowHeight \in WindowHeights :
             JsLe(ScrollPercent(scrollY, documentHeight, windowHeight), maxScrollDepth)
             => ~ScrollEventAt(scrollY, scrollY, documentHeight, windowHeight)]_vars

C16_Witness ==
    /\ sinceScroll = 0
    /\ sinceRaise > 0
    /\ \E i \in Timeouts(timers) : timers[i].rem < DebounceDelay

\* The LandingPg_Scroll calls of trackEvent that carry the current maxScrollDepth.
MaxDepthCalls ==
    {c \in ScrollEmits : calls[c].props["scroll_depth"] = maxScrollDepth}
MaxDepthDelivered == \E c \in MaxDepthCalls : LogPos(c) # 0
MaxDepthDropped == \E c \in MaxDepthCalls : calls[c].gaveUp

\* C15 as stated: once the scroll events have stopped and every timer has
\* run, the greatest depth reached has been delivered to gtag whenever gtag
\* has become available.
C15_MaxDepthDelivered ==
    (scrollTimeout >= 1 /\ timers = <<>> /\ gtag # "absent") => MaxDepthDelivered

\* C15 as amended: once scroll events stop, the greatest depth reached is
\* eventually delivered to gtag, unless gtag was absent at the emission and at
\* each of the 50 poll runs that follow it: then the event is dropped, also if
\* gtag becomes available later.
C15_MaxDepthDeliveredOrDropped ==
    /\ []((scrollTimeout >= 1 /\ timers = <<>>) =>
             /\ MaxDepthDelivered \/ MaxDepthDropped
             /\ \A c \in MaxDepthCalls :
                   calls[c].gaveUp <=> (~calls[c].avail /\ calls[c].ticks = maxAttempts
                                        /\ LogPos(c) = 0))
    /\ <>[](scrollTimeout >= 1 => (MaxDepthDelivered \/ MaxDepthDropped))

C15_Witness ==
    /\ scrollTimeout >= 1
    /\ timers = <<>>
    /\ MaxDepthDelivered
    /\ \E c \in MaxDepthCalls : ~calls[c].avail /\ calls[c].ticks > 1

====
